---- MODULE Spec2Model ----
(***************************************************************************)
(* Model of the publish pipeline of dsa-commiter: GitOperations            *)
(* (git_operations.py) driven by the two CLI flows of CLIInterface         *)
(* (cli_interface.py).  Every git subprocess call is one step; the git     *)
(* binary is the environment: it decides exit codes and error text.        *)
(*                                                                         *)
(* Texts (commit messages, error streams, formatted exceptions) are        *)
(* sequences of words, and Python's substring test is the contiguous       *)
(* sub-sequence test on words.                                             *)
(***************************************************************************)
EXTENDS Integers, Sequences, FiniteSets, TLC

\* ------------------------------------------------------------------ bounds
\* how many times git_add_commit_push may re-enter itself in the model
MaxRerun == 2
\* create operations are taken while the tree has fewer entries than this
MaxEntries == 4

\* ------------------------------------------------------------ input sets
FileNames == {"a.txt", "b.txt"}
\* os.listdir of the current directory, as the CLI offers it
ListedFiles == <<"a.txt", "b.txt">>
Branches == {"main", "dev", ""}           \* "" is the detached state
Urls == {"", "u1"}                        \* "" is "pressed Enter"
\* commit messages the user may type; the first is the prompt's default
Messages == { <<"Update", "files">>,
              <<"fix", "no", "upstream", "branch">>,
              <<"no", "remote", "yet">> }
\* what git may write to its error stream when a command exits non-zero
StderrTexts == { <<>>,
                 <<"fatal:", "has", "no", "upstream", "branch">>,
                 <<"fatal:", "No", "remote", "configured">>,
                 <<"error:", "failed", "to", "push">> }
AddStderr == { <<>>, <<"fatal:", "pathspec", "did", "not", "match">> }
CommitStderr == { <<"fatal:", "unable", "to", "auto-detect", "email">> }
\* answers to "Enter file number to push (or 'all' ..., 'q' to cancel)"
Choices == {"q", "all", "1", "2", "3", "x"}

\* ------------------------------------------------------- text operations
\* str.lower() on the words the model uses
LowerTok(w) == CASE w = "No" -> "no"
                 [] w = "The" -> "the"
                 [] w = "Update" -> "update"
                 [] w = "Command" -> "command"
                 [] OTHER -> w
Lower(t) == [k \in DOMAIN t |-> LowerTok(t[k])]

\* Python `phrase in text`
Contains(phrase, t) ==
    \E k \in 0..(Len(t) - Len(phrase)) :
        SubSeq(t, k + 1, k + Len(phrase)) = phrase

\* str(CalledProcessError): "Command '<cmd>' returned non-zero exit status N."
StrOfError(cmd) ==
    <<"Command">> \o cmd \o <<"returned", "non-zero", "exit", "status">>

NoErr == [cmd |-> <<>>, stderr |-> <<>>, captured |-> "none"]

\* `e.stderr.decode() if e.stderr else str(e)`: e.stderr is a str when the
\* call passed text=True, bytes when it only captured, None otherwise.
\* A str has no decode(): the expression raises AttributeError.
error_msg(e) ==
    IF e.captured # "none" /\ e.stderr # <<>>
    THEN IF e.captured = "bytes"
         THEN [raised |-> FALSE, msg |-> e.stderr]
         ELSE [raised |-> TRUE, msg |-> <<>>]
    ELSE [raised |-> FALSE, msg |-> StrOfError(e.cmd)]

\* ------------------------------------------------------------- commands
CmdAdd(f) == <<"git", "add", f>>
CmdCommit(m) == <<"git", "commit", "-m">> \o m
gacp_push_cmd == <<"git", "push", "origin", "main">>
set_upstream_cmd == <<"git", "push", "--set-upstream", "origin", "main">>
\* the strategy list with its second and third entries exchanged
push_strategies_swapped ==
    << <<"git", "push", "origin", "main">>,
       <<"git", "push", "-u", "origin", "main">>,
       <<"git", "push", "--set-upstream", "origin", "main">>,
       <<"git", "push", "origin", "HEAD">> >>
push_strategies ==
    << <<"git", "push", "origin", "main">>,
       <<"git", "push", "--set-upstream", "origin", "main">>,
       <<"git", "push", "-u", "origin", "main">>,
       <<"git", "push", "origin", "HEAD">> >>

IsPush(c) == Len(c) >= 2 /\ c[2] = "push"
IsAdd(c) == Len(c) >= 2 /\ c[2] = "add"
IsCommit(c) == Len(c) >= 2 /\ c[2] = "commit"
IsRemote(c) == Len(c) >= 2 /\ c[2] = "remote"

VARIABLES
    \* the repository git works on
    isRepo, currentBranch, remoteUrl, dirty, staged, hasCommits,
    \* the running publish attempt
    pc, flow, files, message, i, depth, err, strat, diag,
    gacpResult, trResult, exc, log

VARIABLES
    \* one call of run_git_diagnostics: what git answers, what is returned
    dgIn, dgOut,
    \* one call of get_file_git_status: git's answer, the value returned
    stIn, stOut,
    \* the directory tree, the two current_dir fields and the last operation
    fsDirs, fsFiles, cursor, gitDir, lastOp,
    \* the operating system the process runs on
    platform

diagVars == <<dgIn, dgOut, stIn, stOut>>
fsVars == <<fsDirs, fsFiles, cursor, gitDir, lastOp, platform>>
repoVars == <<isRepo, currentBranch, remoteUrl, dirty, staged, hasCommits>>
callVars == <<flow, files, message>>
vars == <<isRepo, currentBranch, remoteUrl, dirty, staged, hasCommits,
          pc, flow, files, message, i, depth, err, strat, diag,
          gacpResult, trResult, exc, log,
          dgIn, dgOut, stIn, stOut,
          fsDirs, fsFiles, cursor, gitDir, lastOp, platform>>

\* one issued git command: its argument vector, exit code, the function
\* that issued it, the run of git_add_commit_push it belongs to and, for a
\* commit, whether the index was empty when it started
Entry(c, rc, by) ==
    [cmd |-> c, rc |-> rc, by |-> by, run |-> depth,
     nothingStaged |-> IsCommit(c) /\ staged = {}]

NoDiag == [is_git_repo |-> FALSE, has_remote |-> FALSE, has_commits |-> FALSE,
           current_branch |-> "None", remote_url |-> "None"]

\* the working directory the process starts in (os.getcwd()), as a path
StartDir == << <<"w">> >>
NoOp == [op |-> "none"]

\* no diagnostics call and no filesystem operation under way
NoCall == [kind |-> "none"]
DiagIdle == dgIn = NoCall /\ dgOut = NoCall /\ stIn = NoCall /\ stOut = NoCall
FsIdle ==
    /\ fsDirs = {<<>>, StartDir}
    /\ fsFiles = {}
    /\ cursor = StartDir
    /\ gitDir = StartDir
    /\ lastOp = NoOp
    /\ platform = "posix"

Init ==
    /\ isRepo \in BOOLEAN
    /\ currentBranch \in Branches
    /\ remoteUrl \in {"", "u1"}
    /\ dirty \in SUBSET FileNames
    /\ staged = {}
    /\ hasCommits \in BOOLEAN
    \* a directory that is no repository has no branch, remote or commit;
    \* a detached head points at a commit
    /\ ~isRepo => (currentBranch = "" /\ remoteUrl = "" /\ ~hasCommits)
    /\ (isRepo /\ currentBranch = "") => hasCommits
    /\ pc = "menu"
    /\ flow = "none"
    /\ files = <<>>
    /\ message = <<>>
    /\ i = 1
    /\ depth = 0
    /\ err = NoErr
    /\ strat = 1
    /\ diag = NoDiag
    /\ gacpResult = "none"
    /\ trResult = "none"
    /\ exc = "none"
    /\ log = <<>>
    /\ DiagIdle
    /\ FsIdle

\* ------------------------------------------------- GitOperations helpers
\* run_git_diagnostics: the fields the publish flows read.  `git remote
\* get-url origin` exits non-zero without a remote, `git log` without a
\* commit; `git branch --show-current` prints nothing when detached.
run_git_diagnostics ==
    IF ~isRepo THEN NoDiag
    ELSE [is_git_repo |-> TRUE,
          has_remote |-> remoteUrl # "",
          has_commits |-> hasCommits,
          current_branch |-> currentBranch,
          remote_url |-> IF remoteUrl # "" THEN remoteUrl ELSE "None"]

\* add_remote replacing an existing remote without asking
add_remote_unasked(url, replace, rmOk, addOk) ==
    LET exists == remoteUrl # ""
        get == Entry(<<"git", "remote", "get-url", "origin">>,
                     IF exists THEN 0 ELSE 1, "add_remote")
        rm(rc) == Entry(<<"git", "remote", "remove", "origin">>, rc, "add_remote")
        ad(rc) == Entry(<<"git", "remote", "add", "origin", url>>, rc, "add_remote")
        pre == IF exists THEN <<get, rm(0)>> ELSE <<get>>
    IN  IF exists /\ ~rmOk
        THEN [result |-> FALSE, remote |-> remoteUrl, entries |-> <<get, rm(1)>>]
        ELSE IF addOk
        THEN [result |-> TRUE, remote |-> url, entries |-> pre \o <<ad(0)>>]
        ELSE [result |-> FALSE, remote |-> "", entries |-> pre \o <<ad(1)>>]

\* add_remote(remote_url): result, the remote afterwards, commands issued.
\* replace is the answer to "Replace existing remote?", rmOk / addOk are
\* git's verdicts on `remote remove` and `remote add`.
add_remote(url, replace, rmOk, addOk) ==
    LET exists == remoteUrl # ""
        get == Entry(<<"git", "remote", "get-url", "origin">>,
                     IF exists THEN 0 ELSE 1, "add_remote")
        rm(rc) == Entry(<<"git", "remote", "remove", "origin">>, rc, "add_remote")
        ad(rc) == Entry(<<"git", "remote", "add", "origin", url>>, rc, "add_remote")
        pre == IF exists THEN <<get, rm(0)>> ELSE <<get>>
    IN  IF exists /\ ~replace
        THEN [result |-> FALSE, remote |-> remoteUrl, entries |-> <<get>>]
        ELSE IF exists /\ ~rmOk
        THEN [result |-> FALSE, remote |-> remoteUrl, entries |-> <<get, rm(1)>>]
        ELSE IF addOk
        THEN [result |-> TRUE, remote |-> url, entries |-> pre \o <<ad(0)>>]
        ELSE [result |-> FALSE, remote |-> "", entries |-> pre \o <<ad(1)>>]

\* initialize_git reporting success although `git init` failed
initialize_git_unchecked(initOk, renameOk, dflt) ==
    IF ~initOk
    THEN [result |-> TRUE, repo |-> FALSE, branch |-> currentBranch,
          entries |-> <<Entry(<<"git", "init">>, 1, "initialize_git")>>]
    ELSE [result |-> TRUE, repo |-> TRUE,
          branch |-> IF renameOk THEN "main" ELSE dflt,
          entries |-> <<Entry(<<"git", "init">>, 0, "initialize_git"),
                        Entry(<<"git", "branch", "-M", "main">>,
                              IF renameOk THEN 0 ELSE 1, "initialize_git")>>]

\* initialize_git: `git init`, then `git branch -M main` whose failure is
\* ignored (the branch then keeps the name git init gave it).
initialize_git(initOk, renameOk, dflt) ==
    IF ~initOk
    THEN [result |-> FALSE, repo |-> FALSE, branch |-> currentBranch,
          entries |-> <<Entry(<<"git", "init">>, 1, "initialize_git")>>]
    ELSE [result |-> TRUE, repo |-> TRUE,
          branch |-> IF renameOk THEN "main" ELSE dflt,
          entries |-> <<Entry(<<"git", "init">>, 0, "initialize_git"),
                        Entry(<<"git", "branch", "-M", "main">>,
                              IF renameOk THEN 0 ELSE 1, "initialize_git")>>]

\* int(choice) - 1, or ValueError
IsNumber(c) == c \in {"1", "2", "3"}
ParseInt(c) == CASE c = "1" -> 1 [] c = "2" -> 2 [] c = "3" -> 3 [] OTHER -> 0

\* the selection block taking any number as the first file
files_to_push_unchecked(choice) ==
    IF choice = "q" THEN <<>>
    ELSE IF choice = "all" THEN ListedFiles
    ELSE IF ~IsNumber(choice) THEN <<>>
    ELSE <<ListedFiles[1]>>

\* the selection block shared by both CLI flows: <<>> stands for "return"
files_to_push(choice) ==
    IF choice = "q" THEN <<>>
    ELSE IF choice = "all" THEN ListedFiles
    ELSE IF ~IsNumber(choice) THEN <<>>
    ELSE LET file_index == ParseInt(choice) - 1
         IN  IF 0 <= file_index /\ file_index < Len(ListedFiles)
             THEN <<ListedFiles[file_index + 1]>>
             ELSE <<>>

\* ------------------------------------------------------------ CLI flows
FreshAttempt ==
    /\ i' = 1 /\ depth' = 0 /\ err' = NoErr /\ strat' = 1
    /\ gacpResult' = "none" /\ trResult' = "none" /\ exc' = "none"

\* CLIInterface.git_push, up to the repository check
StandardStart ==
    /\ pc = "menu"
    /\ flow' = "standard"
    /\ FreshAttempt
    /\ files' = <<>> /\ message' = <<>> /\ diag' = NoDiag
    /\ UNCHANGED <<remoteUrl, dirty, staged, hasCommits>>
    /\ IF isRepo
       THEN /\ pc' = "std_select" /\ log' = <<>>
            /\ UNCHANGED <<isRepo, currentBranch>>
       ELSE \E confirm, initOk, renameOk \in BOOLEAN, dflt \in {"main", "dev"} :
              IF ~confirm
              THEN /\ pc' = "done" /\ log' = <<>>
                   /\ UNCHANGED <<isRepo, currentBranch>>
              ELSE LET r == initialize_git(initOk, renameOk, dflt)
                   IN  /\ isRepo' = r.repo
                       /\ currentBranch' = r.branch
                       /\ log' = r.entries
                       /\ pc' = IF r.result THEN "std_select" ELSE "done"
    /\ UNCHANGED <<diagVars, fsVars>>

\* CLIInterface.git_push from the file listing to the call of the pipeline
StandardSelect ==
    /\ pc = "std_select"
    /\ \E choice \in Choices, confirm \in BOOLEAN, msg \in Messages :
         LET sel == files_to_push(choice)
         IN  IF sel = <<>> \/ ~confirm
             THEN /\ pc' = "done"
                  /\ UNCHANGED <<files, message>>
             ELSE /\ pc' = "gacp_add"
                  /\ files' = sel
                  /\ message' = msg
    /\ UNCHANGED <<repoVars, flow, i, depth, err, strat, diag,
                   gacpResult, trResult, exc, log>>
    /\ UNCHANGED <<diagVars, fsVars>>

\* CLIInterface.enhanced_git_push: diagnostics and the repository check
EnhancedStart ==
    /\ pc = "menu"
    /\ flow' = "enhanced"
    /\ FreshAttempt
    /\ files' = <<>> /\ message' = <<>>
    /\ diag' = run_git_diagnostics
    /\ UNCHANGED <<remoteUrl, dirty, staged, hasCommits>>
    /\ IF isRepo
       THEN /\ pc' = "enh_remote" /\ log' = <<>>
            /\ UNCHANGED <<isRepo, currentBranch>>
       ELSE \E confirm, initOk, renameOk \in BOOLEAN, dflt \in {"main", "dev"} :
              IF ~confirm
              THEN /\ pc' = "done" /\ log' = <<>>
                   /\ UNCHANGED <<isRepo, currentBranch>>
              ELSE LET r == initialize_git(initOk, renameOk, dflt)
                   IN  /\ isRepo' = r.repo
                       /\ currentBranch' = r.branch
                       /\ log' = r.entries
                       /\ pc' = IF r.result THEN "enh_remote" ELSE "done"
    /\ UNCHANGED <<diagVars, fsVars>>

\* CLIInterface.enhanced_git_push: the remote prompt
EnhancedRemote ==
    /\ pc = "enh_remote"
    /\ pc' = "enh_select"
    /\ IF diag.has_remote
       THEN UNCHANGED <<remoteUrl, log>>
       ELSE \E url \in Urls, replace, rmOk, addOk \in BOOLEAN :
              IF url = ""
              THEN UNCHANGED <<remoteUrl, log>>
              ELSE LET r == add_remote(url, replace, rmOk, addOk)
                   IN  /\ remoteUrl' = r.remote
                       /\ log' = log \o r.entries
    /\ UNCHANGED <<isRepo, currentBranch, dirty, staged, hasCommits, callVars,
                   i, depth, err, strat, diag, gacpResult, trResult, exc>>
    /\ UNCHANGED <<diagVars, fsVars>>

\* CLIInterface.enhanced_git_push from the file listing to the pipeline
EnhancedSelect ==
    /\ pc = "enh_select"
    /\ \E choice \in Choices, msg \in Messages :
         LET sel == files_to_push(choice)
         IN  IF sel = <<>>
             THEN /\ pc' = "done"
                  /\ UNCHANGED <<files, message>>
             ELSE /\ pc' = "gacp_add"
                  /\ files' = sel
                  /\ message' = msg
    /\ UNCHANGED <<repoVars, flow, i, depth, err, strat, diag,
                   gacpResult, trResult, exc, log>>
    /\ UNCHANGED <<diagVars, fsVars>>

\* the attempt is over ("Press Enter to continue"): back to the menu
Finish ==
    /\ pc = "done"
    /\ pc' = "menu"
    /\ flow' = "none"
    /\ files' = <<>> /\ message' = <<>> /\ diag' = NoDiag /\ log' = <<>>
    /\ FreshAttempt
    /\ UNCHANGED repoVars
    /\ UNCHANGED <<diagVars, fsVars>>

\* --------------------------------------------------- git_add_commit_push
\* How a result leaves git_add_commit_push.  The standard flow calls it
\* bare, so an exception reaches CLIInterface.run; the enhanced flow calls
\* it through GitOperations.enhanced_git_push, whose `except Exception`
\* turns an exception into False, and a false result starts
\* troubleshoot_and_retry.
\* the same with no `except Exception` in CLIInterface.run: an exception
\* that leaves the standard flow ends the process
GacpReturn_run_uncaught(res) ==
    /\ gacpResult' = res
    /\ IF flow = "standard"
       THEN /\ pc' = IF res = "raised" THEN "exited" ELSE "done"
            /\ exc' = IF res = "raised" THEN "AttributeError" ELSE exc
       ELSE /\ pc' = IF res = "true" THEN "done" ELSE "tr_diag"
            /\ exc' = exc

GacpReturn_always_troubleshoots(res) ==
    /\ gacpResult' = res
    /\ IF flow = "standard"
       THEN /\ pc' = "done"
            /\ exc' = IF res = "raised" THEN "AttributeError" ELSE exc
       ELSE /\ pc' = "tr_diag"
            /\ exc' = exc

GacpReturn(res) ==
    /\ gacpResult' = res
    /\ IF flow = "standard"
       THEN /\ pc' = "done"
            /\ exc' = IF res = "raised" THEN "AttributeError" ELSE exc
       ELSE /\ pc' = IF res = "true" THEN "done" ELSE "tr_diag"
            /\ exc' = exc

\* `git add file` for the next file of the loop
GacpAdd ==
    /\ pc = "gacp_add"
    /\ LET f == files[i]
       IN  \/ /\ staged' = staged \cup ({f} \cap dirty)
              /\ dirty' = dirty \ {f}
              /\ log' = Append(log, Entry(CmdAdd(f), 0, "git_add_commit_push"))
              /\ i' = i + 1
              /\ pc' = IF i = Len(files) THEN "gacp_commit" ELSE "gacp_add"
              /\ err' = err
           \/ \E s \in AddStderr :
              /\ log' = Append(log, Entry(CmdAdd(f), 1, "git_add_commit_push"))
              /\ err' = [cmd |-> CmdAdd(f), stderr |-> s, captured |-> "str"]
              /\ pc' = "gacp_except"
              /\ UNCHANGED <<staged, dirty, i>>
    /\ UNCHANGED <<isRepo, currentBranch, remoteUrl, hasCommits, callVars,
                   depth, strat, diag, gacpResult, trResult, exc>>
    /\ UNCHANGED <<diagVars, fsVars>>

\* `git commit -m message`: with nothing staged git prints "nothing to
\* commit" on its standard output and exits 1 with an empty error stream
GacpCommit ==
    /\ pc = "gacp_commit"
    /\ \/ /\ staged # {}
          /\ staged' = {}
          /\ hasCommits' = TRUE
          /\ log' = Append(log, Entry(CmdCommit(message), 0, "git_add_commit_push"))
          /\ pc' = "gacp_push"
          /\ err' = err
       \/ \E s \in (IF staged = {} THEN {<<>>} ELSE CommitStderr) :
          /\ log' = Append(log, Entry(CmdCommit(message), 1, "git_add_commit_push"))
          /\ err' = [cmd |-> CmdCommit(message), stderr |-> s, captured |-> "str"]
          /\ pc' = "gacp_except"
          /\ UNCHANGED <<staged, hasCommits>>
    /\ UNCHANGED <<isRepo, currentBranch, remoteUrl, dirty, callVars,
                   i, depth, strat, diag, gacpResult, trResult, exc>>
    /\ UNCHANGED <<diagVars, fsVars>>

\* `git push origin main`
GacpPush ==
    /\ pc = "gacp_push"
    /\ \/ /\ remoteUrl # ""
          /\ log' = Append(log, Entry(gacp_push_cmd, 0, "git_add_commit_push"))
          /\ GacpReturn("true")
          /\ err' = err
       \/ \E s \in StderrTexts :
          /\ log' = Append(log, Entry(gacp_push_cmd, 1, "git_add_commit_push"))
          /\ err' = [cmd |-> gacp_push_cmd, stderr |-> s, captured |-> "str"]
          /\ pc' = "gacp_except"
          /\ UNCHANGED <<gacpResult, exc>>
    /\ UNCHANGED <<repoVars, callVars, i, depth, strat, diag, trResult>>
    /\ UNCHANGED <<diagVars, fsVars>>

\* the `except subprocess.CalledProcessError` handler
GacpExcept ==
    /\ pc = "gacp_except"
    /\ err' = NoErr
    /\ LET m == error_msg(err)
           low == Lower(m.msg)
       IN  IF m.raised
           THEN /\ GacpReturn("raised")
                /\ UNCHANGED <<remoteUrl, log, i, depth>>
           ELSE IF Contains(<<"no", "upstream", "branch">>, low)
           THEN \E confirm \in BOOLEAN :
                  /\ IF confirm
                     THEN pc' = "sup_push" /\ UNCHANGED <<gacpResult, exc>>
                     ELSE GacpReturn("false")
                  /\ UNCHANGED <<remoteUrl, log, i, depth>>
           ELSE IF Contains(<<"no", "remote">>, low)
           THEN \E url \in Urls, replace, rmOk, addOk \in BOOLEAN :
                  IF url = ""
                  THEN /\ GacpReturn("false")
                       /\ UNCHANGED <<remoteUrl, log, i, depth>>
                  ELSE LET r == add_remote(url, replace, rmOk, addOk)
                       IN  /\ remoteUrl' = r.remote
                           /\ log' = log \o r.entries
                           /\ IF r.result
                              THEN /\ depth < MaxRerun
                                   /\ pc' = "gacp_add"
                                   /\ i' = 1
                                   /\ depth' = depth + 1
                                   /\ UNCHANGED <<gacpResult, exc>>
                              ELSE /\ GacpReturn("false")
                                   /\ UNCHANGED <<i, depth>>
           ELSE /\ GacpReturn("false")
                /\ UNCHANGED <<remoteUrl, log, i, depth>>
    /\ UNCHANGED <<isRepo, currentBranch, dirty, staged, hasCommits, callVars,
                   strat, diag, trResult>>
    /\ UNCHANGED <<diagVars, fsVars>>

\* set_upstream_and_push: `git push --set-upstream origin main`
SupPush ==
    /\ pc = "sup_push"
    /\ \/ /\ remoteUrl # ""
          /\ log' = Append(log, Entry(set_upstream_cmd, 0, "set_upstream_and_push"))
          /\ GacpReturn("true")
       \/ \E s \in StderrTexts :
          /\ log' = Append(log, Entry(set_upstream_cmd, 1, "set_upstream_and_push"))
          /\ IF error_msg([cmd |-> set_upstream_cmd, stderr |-> s,
                           captured |-> "str"]).raised
             THEN GacpReturn("raised")
             ELSE GacpReturn("false")
    /\ UNCHANGED <<repoVars, callVars, i, depth, err, strat, diag, trResult>>
    /\ UNCHANGED <<diagVars, fsVars>>

\* -------------------------------------------------- troubleshoot_and_retry
\* diagnostics and the "No remote repository" issue
TrDiagnose ==
    /\ pc = "tr_diag"
    /\ pc' = "tr_initial"
    /\ diag' = run_git_diagnostics
    /\ IF run_git_diagnostics.has_remote
       THEN UNCHANGED <<remoteUrl, log>>
       ELSE \E url \in Urls, replace, rmOk, addOk \in BOOLEAN :
              IF url = ""
              THEN UNCHANGED <<remoteUrl, log>>
              ELSE LET r == add_remote(url, replace, rmOk, addOk)
                   IN  /\ remoteUrl' = r.remote
                       /\ log' = log \o r.entries
    /\ UNCHANGED <<isRepo, currentBranch, dirty, staged, hasCommits, callVars,
                   i, depth, err, strat, gacpResult, trResult, exc>>
    /\ UNCHANGED <<diagVars, fsVars>>

\* the "No initial commit" issue: `git add .` then `git commit -m 'Initial
\* commit'`, the second skipped when the first fails
TrInitialCommit ==
    /\ pc = "tr_initial"
    /\ pc' = "tr_add"
    /\ i' = 1
    /\ strat' = 1
    /\ IF diag.has_commits
       THEN UNCHANGED <<dirty, staged, hasCommits, log>>
       ELSE \E confirm, addOk, commitOk \in BOOLEAN :
              LET addE(rc) == Entry(<<"git", "add", ".">>, rc, "troubleshoot_and_retry")
                  comE(rc) == Entry(<<"git", "commit", "-m", "Initial", "commit">>,
                                    rc, "troubleshoot_and_retry")
                  all == staged \cup dirty
              IN  IF ~confirm
                  THEN UNCHANGED <<dirty, staged, hasCommits, log>>
                  ELSE IF ~addOk
                  THEN /\ log' = Append(log, addE(1))
                       /\ UNCHANGED <<dirty, staged, hasCommits>>
                  ELSE IF commitOk /\ all # {}
                  THEN /\ log' = log \o <<addE(0), comE(0)>>
                       /\ dirty' = {} /\ staged' = {}
                       /\ hasCommits' = TRUE
                  ELSE /\ log' = log \o <<addE(0), comE(1)>>
                       /\ dirty' = {} /\ staged' = all
                       /\ hasCommits' = hasCommits
    /\ UNCHANGED <<isRepo, currentBranch, remoteUrl, callVars, depth, err,
                   diag, gacpResult, trResult, exc>>
    /\ UNCHANGED <<diagVars, fsVars>>

\* `continue`: the next strategy, or the all-strategies-failed return
TrContinue ==
    IF strat < Len(push_strategies)
    THEN /\ strat' = strat + 1 /\ i' = 1 /\ pc' = "tr_add"
         /\ UNCHANGED <<trResult, exc>>
    ELSE /\ strat' = strat + 1 /\ i' = 1 /\ pc' = "done"
         /\ trResult' = "false" /\ exc' = exc

\* `git add file` inside the strategy loop
TrAdd ==
    /\ pc = "tr_add"
    /\ LET f == files[i]
       IN  \/ /\ staged' = staged \cup ({f} \cap dirty)
              /\ dirty' = dirty \ {f}
              /\ log' = Append(log, Entry(CmdAdd(f), 0, "troubleshoot_and_retry"))
              /\ i' = i + 1
              /\ pc' = IF i = Len(files) THEN "tr_commit" ELSE "tr_add"
              /\ UNCHANGED <<strat, trResult, exc>>
           \/ /\ log' = Append(log, Entry(CmdAdd(f), 1, "troubleshoot_and_retry"))
              /\ TrContinue
              /\ UNCHANGED <<staged, dirty>>
    /\ UNCHANGED <<isRepo, currentBranch, remoteUrl, hasCommits, callVars,
                   depth, err, diag, gacpResult>>
    /\ UNCHANGED <<diagVars, fsVars>>

\* the loop's commit succeeding with an empty index as well
TrCommit_allow_empty ==
    /\ pc = "tr_commit"
    /\ \/ /\ staged' = {}
          /\ hasCommits' = TRUE
          /\ log' = Append(log, Entry(CmdCommit(message), 0, "troubleshoot_and_retry"))
          /\ pc' = "tr_push"
          /\ UNCHANGED <<strat, i, trResult, exc>>
       \/ /\ log' = Append(log, Entry(CmdCommit(message), 1, "troubleshoot_and_retry"))
          /\ TrContinue
          /\ UNCHANGED <<staged, hasCommits>>
    /\ UNCHANGED <<isRepo, currentBranch, remoteUrl, dirty, callVars,
                   depth, err, diag, gacpResult>>
    /\ UNCHANGED <<diagVars, fsVars>>

\* `git commit -m message` inside the strategy loop
TrCommit ==
    /\ pc = "tr_commit"
    /\ \/ /\ staged # {}
          /\ staged' = {}
          /\ hasCommits' = TRUE
          /\ log' = Append(log, Entry(CmdCommit(message), 0, "troubleshoot_and_retry"))
          /\ pc' = "tr_push"
          /\ UNCHANGED <<strat, i, trResult, exc>>
       \/ /\ log' = Append(log, Entry(CmdCommit(message), 1, "troubleshoot_and_retry"))
          /\ TrContinue
          /\ UNCHANGED <<staged, hasCommits>>
    /\ UNCHANGED <<isRepo, currentBranch, remoteUrl, dirty, callVars,
                   depth, err, diag, gacpResult>>
    /\ UNCHANGED <<diagVars, fsVars>>

\* the strategy's push, and the handler of the loop for its failure
TrPush ==
    /\ pc = "tr_push"
    /\ LET c == push_strategies[strat]
       IN  \/ /\ remoteUrl # ""
              /\ log' = Append(log, Entry(c, 0, "troubleshoot_and_retry"))
              /\ trResult' = "true"
              /\ pc' = "done"
              /\ UNCHANGED <<strat, i, exc>>
           \/ \E s \in StderrTexts :
              /\ log' = Append(log, Entry(c, 1, "troubleshoot_and_retry"))
              /\ IF error_msg([cmd |-> c, stderr |-> s, captured |-> "str"]).raised
                 THEN /\ trResult' = "raised"
                      /\ exc' = "AttributeError"
                      /\ pc' = "done"
                      /\ UNCHANGED <<strat, i>>
                 ELSE TrContinue
    /\ UNCHANGED <<repoVars, callVars, depth, err, diag, gacpResult>>
    /\ UNCHANGED <<diagVars, fsVars>>

Next ==
    \/ StandardStart
    \/ StandardSelect
    \/ EnhancedStart
    \/ EnhancedRemote
    \/ EnhancedSelect
    \/ GacpAdd
    \/ GacpCommit
    \/ GacpPush
    \/ GacpExcept
    \/ SupPush
    \/ TrDiagnose
    \/ TrInitialCommit
    \/ TrAdd
    \/ TrCommit
    \/ TrPush
    \/ Finish

Spec == Init /\ [][Next]_vars

\* ------------------------------------------------------- leaving the loop
\* the process is gone: nothing of the attempt is left, the repository stays
ProcessEnds(cause) ==
    /\ pc' = "exited"
    /\ exc' = cause
    /\ flow' = "none" /\ files' = <<>> /\ message' = <<>>
    /\ i' = 1 /\ depth' = 0 /\ err' = NoErr /\ strat' = 1 /\ diag' = NoDiag
    /\ gacpResult' = "none" /\ trResult' = "none" /\ log' = <<>>
    /\ UNCHANGED <<repoVars, diagVars, fsVars>>

\* menu choice 9
Quit ==
    /\ pc = "menu"
    /\ ProcessEnds("none")

\* Ctrl-C at a prompt or while git runs: the loop's `except KeyboardInterrupt`
Interrupt ==
    /\ pc # "exited"
    /\ ProcessEnds("KeyboardInterrupt")

\* CLIInterface.run with its two ways out
NextRun ==
    \/ Next
    \/ Quit
    \/ Interrupt

SpecRun == Init /\ [][NextRun]_vars

TypeOK ==
    /\ pc \in {"menu", "std_select", "enh_remote", "enh_select", "gacp_add",
               "gacp_commit", "gacp_push", "gacp_except", "sup_push", "tr_diag",
               "tr_initial", "tr_add", "tr_commit", "tr_push", "done"}
    /\ depth \in 0..MaxRerun
    /\ strat \in 1..(Len(push_strategies) + 1)
    /\ gacpResult \in {"none", "true", "false", "raised"}
    /\ trResult \in {"none", "true", "false", "raised"}

\* =================================================== run_git_diagnostics
\* What one git sub-command can do: exit 0 with some output, exit non-zero
\* (CalledProcessError), or not start at all (OSError, e.g. no git binary).
Ok(out) == [kind |-> "ok", out |-> out]
Failed == [kind |-> "failed", out |-> ""]
OsError == [kind |-> "oserror", out |-> ""]

\* `git status --porcelain` output: lines of characters, "XY name".  File
\* names are the two-character names ab and cd.
PorcelainOutputs ==
    { <<>>,
      << <<" ", "M", " ", "a", "b">> >>,
      << <<"M", " ", " ", "a", "b">> >>,
      << <<"?", "?", " ", "a", "b">> >>,
      << <<"A", "M", " ", "a", "b">>, <<" ", "M", " ", "c", "d">> >>,
      << <<"M", " ", " ", "a", "b">>, <<"?", "?", " ", "c", "d">> >> }

BranchAnswers == {Ok("main"), Ok(""), Failed, OsError}
RemoteAnswers == {Ok("u1"), Failed, OsError}
LogAnswers == {Ok("c1 init"), Ok(""), Failed, OsError}
StatusAnswers == {Ok(o) : o \in PorcelainOutputs} \cup {Failed, OsError}
DiagInputs ==
    [repo : BOOLEAN, branch : BranchAnswers, remote : RemoteAnswers,
     commits : LogAnswers, status : StatusAnswers]

\* str.strip() of the whole output, then split('\n'): the first line loses
\* its leading blanks (the output ends with a newline, which goes too)
RECURSIVE LStrip(_)
LStrip(line) ==
    IF line # <<>> /\ Head(line) = " " THEN LStrip(Tail(line)) ELSE line
StripSplit(output) ==
    IF output = <<>> THEN <<>>
    ELSE <<LStrip(output[1])>> \o Tail(output)

\* line[:2] and line[3:]
StatusOf(line) == SubSeq(line, 1, IF Len(line) < 2 THEN Len(line) ELSE 2)
FilenameOf(line) == SubSeq(line, 4, Len(line))

\* the three lists built by the loop over the status lines
RECURSIVE ParseStatus(_, _)
ParseStatus(lines, d) ==
    IF lines = <<>> THEN d
    ELSE LET line == Head(lines)
             status == StatusOf(line)
             filename == FilenameOf(line)
             d1 == IF line # <<>> /\ status[1] \in {"M", "A", "R", "C"}
                   THEN [d EXCEPT !.staged_files = Append(@, filename)] ELSE d
             d2 == IF line # <<>> /\ status[2] = "M"
                   THEN [d1 EXCEPT !.modified_files = Append(@, filename)] ELSE d1
             d3 == IF line # <<>> /\ status = <<"?", "?">>
                   THEN [d2 EXCEPT !.untracked_files = Append(@, filename)] ELSE d2
         IN  ParseStatus(Tail(lines), d3)

\* the dictionary run_git_diagnostics starts from; "None" is Python's None
DiagDefaults ==
    [is_git_repo |-> FALSE, has_remote |-> FALSE, has_commits |-> FALSE,
     current_branch |-> "None", remote_url |-> "None",
     staged_files |-> <<>>, modified_files |-> <<>>, untracked_files |-> <<>>]

\* the sub-checks in the order they run
SubChecks == <<"branch", "remote", "commits", "status">>

\* how many sub-checks run before one raises something that is not a
\* CalledProcessError (all of them when none does)
RECURSIVE diag_reached(_, _)
diag_reached(in, n) ==
    IF n = Len(SubChecks) THEN n
    ELSE IF in[SubChecks[n + 1]].kind = "oserror" THEN n
    ELSE diag_reached(in, n + 1)

\* the remote sub-check recording has_remote without the URL
diag_after_no_url(in, n) ==
    LET d0 == [DiagDefaults EXCEPT !.is_git_repo = in.repo]
        d1 == [d0 EXCEPT !.current_branch =
                   IF in.branch.kind = "ok" THEN in.branch.out ELSE "unknown"]
        d2 == [d1 EXCEPT !.has_remote = (in.remote.kind = "ok")]
    IN  IF n = 0 THEN d0 ELSE IF n = 1 THEN d1 ELSE d2

\* the dictionary after the first n sub-checks have run, each one catching
\* its own CalledProcessError
diag_after(in, n) ==
    LET d0 == [DiagDefaults EXCEPT !.is_git_repo = in.repo]
        d1 == IF in.branch.kind = "ok"
              THEN [d0 EXCEPT !.current_branch = in.branch.out]
              ELSE [d0 EXCEPT !.current_branch = "unknown"]
        d2 == IF in.remote.kind = "ok"
              THEN [d1 EXCEPT !.has_remote = TRUE, !.remote_url = in.remote.out]
              ELSE [d1 EXCEPT !.has_remote = FALSE]
        d3 == IF in.commits.kind = "ok"
              THEN [d2 EXCEPT !.has_commits = (in.commits.out # "")]
              ELSE [d2 EXCEPT !.has_commits = FALSE]
        d4 == IF in.status.kind = "ok"
              THEN ParseStatus(StripSplit(in.status.out), d3)
              ELSE d3
    IN  CASE n = 0 -> d0 [] n = 1 -> d1 [] n = 2 -> d2 [] n = 3 -> d3
          [] OTHER -> d4

\* the same function without the outer `except Exception`
diagnostics_no_outer_except(in) ==
    IF ~in.repo
    THEN [raised |-> FALSE, rec |-> diag_after(in, 0)]
    ELSE [raised |-> diag_reached(in, 0) < Len(SubChecks),
          rec |-> diag_after(in, diag_reached(in, 0))]

\* run_git_diagnostics on the answers `in`: outside a repository the
\* defaults come back at once; anything a sub-check does not catch reaches
\* the outer handler, which prints it and returns what is filled in so far
diagnostics(in) ==
    IF ~in.repo
    THEN [raised |-> FALSE, rec |-> diag_after(in, 0)]
    ELSE [raised |-> FALSE, rec |-> diag_after(in, diag_reached(in, 0))]

\* ---------------------------------------------------- get_file_git_status
\* `git status --porcelain <file>`: nothing for a clean file, else one
\* line "XY name" (the text handed back keeps its leading blank)
StatusLines ==
    { <<>>,
      <<"?", "?", " ", "a", "b">>,
      <<" ", "M", " ", "a", "b">>,
      <<"M", " ", " ", "a", "b">>,
      <<"A", " ", " ", "a", "b">>,
      <<"A", "M", " ", "a", "b">>,
      <<" ", "D", " ", "a", "b">>,
      <<"D", " ", " ", "a", "b">>,
      <<"R", " ", " ", "a", "b">>,
      <<"C", " ", " ", "a", "b">>,
      <<" ", "T", " ", "a", "b">>,
      <<"U", "U", " ", "a", "b">> }
StatusOfInputs == {Ok(l) : l \in StatusLines} \cup {Failed, OsError}

\* str.strip() of a short text
RECURSIVE RStrip(_)
RStrip(t) ==
    IF t # <<>> /\ t[Len(t)] = " " THEN RStrip(SubSeq(t, 1, Len(t) - 1)) ELSE t
Strip(t) == RStrip(LStrip(t))

\* get_file_git_status(filename) on git's answer: the label returned (its
\* word, without the pictogram), or the stripped status code for a code
\* none of the tests matches.  Only CalledProcessError is caught.
get_file_git_status(answer) ==
    LET status_code == StatusOf(answer.out)
        has(c) == \E k \in DOMAIN status_code : status_code[k] = c
    IN  IF answer.kind = "oserror" THEN [raised |-> TRUE, status |-> <<>>]
        ELSE IF answer.kind = "failed"
        THEN [raised |-> FALSE, status |-> <<"Unknown">>]
        ELSE IF Strip(answer.out) = <<>>
        THEN [raised |-> FALSE, status |-> <<"Clean">>]
        ELSE IF status_code = <<"?", "?">>
        THEN [raised |-> FALSE, status |-> <<"Untracked">>]
        ELSE IF has("M") THEN [raised |-> FALSE, status |-> <<"Modified">>]
        ELSE IF has("A") THEN [raised |-> FALSE, status |-> <<"Added">>]
        ELSE IF has("D") THEN [raised |-> FALSE, status |-> <<"Deleted">>]
        ELSE [raised |-> FALSE, status |-> Strip(status_code)]

\* CLIInterface.enhanced_git_push asks for the status of a listed file
StatusCall ==
    /\ stOut = NoCall
    /\ stOut' = get_file_git_status(stIn)
    /\ UNCHANGED <<stIn, dgIn, dgOut, repoVars, pc, callVars, i, depth, err,
                   strat, diag, gacpResult, trResult, exc, log, fsVars>>

\* the label has been shown; git's answer for the next file
StatusNext ==
    /\ stOut # NoCall
    /\ stOut' = NoCall
    /\ stIn' \in StatusOfInputs
    /\ UNCHANGED <<dgIn, dgOut, repoVars, pc, callVars, i, depth, err,
                   strat, diag, gacpResult, trResult, exc, log, fsVars>>

\* a caller is about to run the diagnostics on some repository
DiagCall ==
    /\ dgOut = NoCall
    /\ dgOut' = diagnostics(dgIn)
    /\ UNCHANGED <<dgIn, stIn, stOut, repoVars, pc, callVars, i, depth, err, strat, diag,
                   gacpResult, trResult, exc, log, fsVars>>

\* the record has been read; git's answers for the next call
DiagNext ==
    /\ dgOut # NoCall
    /\ dgOut' = NoCall
    /\ dgIn' \in DiagInputs
    /\ UNCHANGED <<stIn, stOut, repoVars, pc, callVars, i, depth, err, strat, diag,
                   gacpResult, trResult, exc, log, fsVars>>

PipelineIdle ==
    /\ isRepo = TRUE /\ currentBranch = "main" /\ remoteUrl = "u1"
    /\ dirty = {} /\ staged = {} /\ hasCommits = TRUE
    /\ pc = "menu" /\ flow = "none" /\ files = <<>> /\ message = <<>>
    /\ i = 1 /\ depth = 0 /\ err = NoErr /\ strat = 1 /\ diag = NoDiag
    /\ gacpResult = "none" /\ trResult = "none" /\ exc = "none" /\ log = <<>>

\* the process starts in a directory that is not a repository yet
InitDiag ==
    /\ PipelineIdle
    /\ FsIdle
    /\ dgIn = [repo |-> FALSE, branch |-> Failed, remote |-> Failed,
               commits |-> Failed, status |-> Failed]
    /\ dgOut = NoCall
    /\ stIn = Ok(<<>>)
    /\ stOut = NoCall

NextDiag ==
    \/ DiagCall
    \/ DiagNext
    \/ StatusCall
    \/ StatusNext

SpecDiag == InitDiag /\ [][NextDiag]_vars

\* ======================================================== FileOperations
\* Names are sequences of characters, paths sequences of names (<<>> is
\* the filesystem root), file contents are strings ("" is "no content").
LongName == [k \in 1..256 |-> "n"]
DirNameInputs == {<<>>, <<"s", "u", "b">>, <<"d", "?">>, LongName}
FileNameInputs ==
    {<<>>, <<"a", ".", "p", "y">>, <<"n">>, <<"q", "?">>, LongName}
ContentInputs == {"", "text"}

\* what the operating system refuses in one path component: more than 255
\* characters anywhere, the reserved characters on Windows
ReservedOnWindows == {"<", ">", ":", "\"", "\\", "|", "?", "*"}
OsRejects(name) ==
    \/ Len(name) > 255
    \/ platform = "windows" /\ \E k \in DOMAIN name : name[k] \in ReservedOnWindows

\* os.path.join(base, name) for a plain name; joining "" names base itself
Join(base, name) == IF name = <<>> THEN base ELSE Append(base, name)
\* os.path.dirname of an absolute path
Dirname(path) ==
    IF path = <<>> THEN path ELSE SubSeq(path, 1, Len(path) - 1)
Prefixes(path) == {SubSeq(path, 1, n) : n \in 0..Len(path)}

IsDir(path) == path \in fsDirs
IsFile(path) == \E f \in fsFiles : f.path = path

\* str.lower() on the characters file names use
LowerChar(c) == CASE c = "P" -> "p" [] c = "Y" -> "y" [] OTHER -> c
\* filename.split('.')[-1].lower() if '.' in filename else ''
RECURSIVE LastDot(_, _)
LastDot(name, k) ==
    IF k = 0 THEN 0 ELSE IF name[k] = "." THEN k ELSE LastDot(name, k - 1)
Extension(name) ==
    LET d == LastDot(name, Len(name))
    IN  IF d = 0 THEN <<>>
        ELSE [k \in 1..(Len(name) - d) |-> LowerChar(name[d + k])]

\* self.default_contents.get(extension, "Hello World!")
default_contents(ext) ==
    CASE ext = <<"j", "s">> -> "console.log('Hello World!');"
      [] ext = <<"p", "y">> -> "print('Hello World!')"
      [] ext = <<"g", "o">> -> "package main ... fmt.Println(\"Hello World!\")"
      [] ext = <<"j", "a", "v", "a">> -> "public class Main ..."
      [] ext = <<"c", "p", "p">> -> "#include <iostream> ..."
      [] ext = <<"c">> -> "#include <stdio.h> ..."
      [] ext = <<"h", "t", "m", "l">> -> "<!DOCTYPE html> ..."
      [] ext = <<"c", "s", "s">> -> "body { ... }"
      [] ext = <<"m", "d">> -> "# Hello World ..."
      [] ext = <<"t", "x", "t">> -> "Hello World! This is a text file."
      [] ext = <<"j", "s", "o", "n">> -> "{ \"message\": \"Hello World!\" ... }"
      [] ext = <<"x", "m", "l">> -> "<?xml ...> <root> ..."
      [] ext = <<"y", "m", "l">> -> "message: Hello World! status: success"
      [] ext = <<"y", "a", "m", "l">> -> "message: Hello World! status: success"
      [] OTHER -> "Hello World!"

\* `content or default_content`
file_content(name, content) ==
    IF content # "" THEN content ELSE default_contents(Extension(name))

\* os.makedirs(path, exist_ok=True): ok, and the directories afterwards
makedirs(path) ==
    IF \E n \in 1..Len(path) :
           OsRejects(path[n]) \/ IsFile(SubSeq(path, 1, n))
    THEN [ok |-> FALSE, dirs |-> fsDirs]
    ELSE [ok |-> TRUE, dirs |-> fsDirs \cup Prefixes(path)]

\* open(path, 'w') + write, in a tree whose directories are `dirs`
write_file(dirs, path, text) ==
    IF \/ path = <<>>
       \/ OsRejects(path[Len(path)])
       \/ path \in dirs
       \/ Dirname(path) \notin dirs
    THEN [ok |-> FALSE, files |-> fsFiles]
    ELSE [ok |-> TRUE,
          files |-> {f \in fsFiles : f.path # path}
                    \cup {[path |-> path, content |-> text]}]

HasRoom == Cardinality(fsDirs) + Cardinality(fsFiles) < MaxEntries

PipelineUnchanged ==
    UNCHANGED <<repoVars, pc, callVars, i, depth, err, strat, diag,
                gacpResult, trResult, exc, log, diagVars>>

\* FileOperations.create_directory_and_file(dir_name, filename, content)
create_directory_and_file ==
    /\ HasRoom
    /\ \E dir_name \in DirNameInputs, filename \in FileNameInputs,
          content \in ContentInputs :
         LET dir_path == Join(cursor, dir_name)
             md == IF dir_name # <<>> THEN makedirs(dir_path)
                   ELSE [ok |-> TRUE, dirs |-> fsDirs]
             wr == write_file(md.dirs, Append(dir_path, filename),
                              file_content(filename, content))
             done(res, newDirs, newFiles) ==
                 /\ fsDirs' = newDirs
                 /\ fsFiles' = newFiles
                 /\ lastOp' = [op |-> "create_directory_and_file",
                               dir |-> dir_name, name |-> filename,
                               content |-> content, result |-> res]
         IN  IF ~md.ok THEN done(FALSE, fsDirs, fsFiles)
             ELSE IF filename = <<>>
             THEN done(dir_name # <<>>, md.dirs, fsFiles)
             ELSE done(wr.ok, md.dirs, wr.files)
    /\ UNCHANGED <<cursor, gitDir, platform>>
    /\ PipelineUnchanged

\* FileOperations.create_file_in_directory(directory, filename, content)
create_file_in_directory ==
    /\ HasRoom
    /\ \E directory \in DirNameInputs, filename \in FileNameInputs,
          content \in ContentInputs :
         LET dir_path == Join(cursor, directory)
             md == makedirs(dir_path)
             wr == write_file(md.dirs, Append(dir_path, filename),
                              file_content(filename, content))
             done(res, newDirs, newFiles) ==
                 /\ fsDirs' = newDirs
                 /\ fsFiles' = newFiles
                 /\ lastOp' = [op |-> "create_file_in_directory",
                               dir |-> directory, name |-> filename,
                               content |-> content, result |-> res]
         IN  IF filename = <<>> THEN done(FALSE, fsDirs, fsFiles)
             ELSE IF ~md.ok THEN done(FALSE, fsDirs, fsFiles)
             ELSE done(wr.ok, md.dirs, wr.files)
    /\ UNCHANGED <<cursor, gitDir, platform>>
    /\ PipelineUnchanged

\* the directory change without the os.path.isdir test
change_target_unchecked(dir_name) == Join(cursor, dir_name)

\* where change_directory(dir_name) leaves the cursor
change_target(dir_name) ==
    LET new_path == Join(cursor, dir_name)
    IN  IF IsDir(new_path) THEN new_path ELSE cursor

\* FileOperations.change_directory(dir_name)
change_directory ==
    /\ \E dir_name \in DirNameInputs :
         LET new_path == Join(cursor, dir_name)
         IN  /\ cursor' = change_target(dir_name)
             /\ lastOp' = [op |-> "change_directory", dir |-> dir_name,
                           name |-> <<>>, result |-> IsDir(new_path)]
    /\ UNCHANGED <<fsDirs, fsFiles, gitDir, platform>>
    /\ PipelineUnchanged

\* FileOperations.go_to_parent_directory()
go_to_parent_directory ==
    /\ cursor' = Dirname(cursor)
    /\ lastOp' = [op |-> "go_to_parent_directory", dir |-> <<>>,
                  name |-> <<>>, result |-> Dirname(cursor) # cursor]
    /\ UNCHANGED <<fsDirs, fsFiles, gitDir, platform>>
    /\ PipelineUnchanged

\* os.listdir(current_dir) filtered by os.path.isfile
list_files(dir) == {f.path[Len(f.path)] : f \in {g \in fsFiles : Dirname(g.path) = dir}}

\* CLIInterface.git_push seen from the directory tree: the files offered
\* come from FileOperations.current_dir, the chosen name goes to
\* git_add_commit_push, which runs git with cwd=GitOperations.current_dir
FsPublish ==
    /\ \E filename \in list_files(cursor) :
         lastOp' = [op |-> "git_push", dir |-> cursor, name |-> filename,
                    result |-> IsFile(Append(gitDir, filename)),
                    cwd |-> gitDir]
    /\ UNCHANGED <<fsDirs, fsFiles, cursor, gitDir, platform>>
    /\ PipelineUnchanged

\* ------------------------------------------------ the CLI's create prompt
\* what the user may type at "Enter file content": Enter alone, a text, a
\* text with a blank in front, a blank
TypedContents == {"", "text", " text", " "}
\* str.strip() on those answers
StripText(t) == CASE t = " text" -> "text" [] t = " " -> "" [] OTHER -> t

\* CLIInterface.create_directory_and_file: the prompts, then the call of
\* FileOperations.create_directory_and_file with the stripped answer or,
\* when nothing is left of it, the extension's template
cli_create_directory_and_file ==
    /\ HasRoom
    /\ \E dir_name \in {<<>>, <<"s", "u", "b">>},
          filename \in {<<"a", ".", "p", "y">>, <<"n">>},
          typed \in TypedContents :
         LET default_content == default_contents(Extension(filename))
             answer == IF typed = "" THEN default_content ELSE typed
             content == IF StripText(answer) # "" THEN StripText(answer)
                        ELSE default_content
             dir_path == Join(cursor, dir_name)
             md == IF dir_name # <<>> THEN makedirs(dir_path)
                   ELSE [ok |-> TRUE, dirs |-> fsDirs]
             wr == write_file(md.dirs, Append(dir_path, filename),
                              file_content(filename, content))
         IN  /\ fsDirs' = IF md.ok THEN md.dirs ELSE fsDirs
             /\ fsFiles' = IF md.ok THEN wr.files ELSE fsFiles
             /\ lastOp' = [op |-> "cli_create_directory_and_file",
                           dir |-> dir_name, name |-> filename,
                           typed |-> typed, content |-> content,
                           result |-> md.ok /\ wr.ok]
    /\ UNCHANGED <<cursor, gitDir, platform>>
    /\ PipelineUnchanged

\* ------------------------------------------------- rename_item, delete_item
\* entry names handed to rename_item and delete_item, listed or not
ItemNames == {<<"s", "u", "b">>, <<"a", ".", "p", "y">>, <<"n">>}
NewNames == {<<>>, <<"s", "u", "b">>, <<"n">>, LongName}
ItemTypes == {"file", "directory"}

HasPrefix(path, pre) ==
    Len(path) >= Len(pre) /\ SubSeq(path, 1, Len(pre)) = pre
\* path with its prefix src replaced by dst
Moved(path, src, dst) ==
    IF HasPrefix(path, src)
    THEN dst \o SubSeq(path, Len(src) + 1, Len(path))
    ELSE path

\* is there an entry of the stated type at path
ExistsAs(path, item_type) ==
    \/ item_type = "file" /\ IsFile(path)
    \/ item_type = "directory" /\ IsDir(path)

\* os.rename(src, dst) for a dst that does not exist
os_rename(src, dst) ==
    [dirs |-> {Moved(d, src, dst) : d \in fsDirs},
     files |-> {[path |-> Moved(f.path, src, dst), content |-> f.content] :
                f \in fsFiles}]

\* rename_item without the test for an existing destination: os.rename
\* replaces a file that is in the way
rename_effect_overwriting(item_name, item_type, new_name) ==
    LET item_path == Append(cursor, item_name)
        new_path == Append(cursor, new_name)
        keep == {f \in fsFiles : f.path # new_path}
        same(o) == [outcome |-> o, dirs |-> fsDirs, files |-> fsFiles]
    IN  IF ~ExistsAs(item_path, item_type) THEN same("not_found")
        ELSE IF new_name = <<>> THEN same("empty")
        ELSE IF OsRejects(new_name) \/ IsDir(new_path) THEN same("error")
        ELSE [outcome |-> "renamed",
              dirs |-> {Moved(d, item_path, new_path) : d \in fsDirs},
              files |-> {[path |-> Moved(f.path, item_path, new_path),
                          content |-> f.content] : f \in keep}]

\* rename_item(item_name, item_type) with new_name typed at its prompt:
\* what happened, and the tree afterwards
rename_effect(item_name, item_type, new_name) ==
    LET item_path == Append(cursor, item_name)
        new_path == Append(cursor, new_name)
        same(o) == [outcome |-> o, dirs |-> fsDirs, files |-> fsFiles]
    IN  IF ~ExistsAs(item_path, item_type) THEN same("not_found")
        ELSE IF new_name = <<>> THEN same("empty")
        ELSE IF IsDir(new_path) \/ IsFile(new_path) THEN same("exists")
        ELSE IF OsRejects(new_name) THEN same("error")
        ELSE [outcome |-> "renamed",
              dirs |-> os_rename(item_path, new_path).dirs,
              files |-> os_rename(item_path, new_path).files]

\* FileOperations.rename_item(item_name, item_type)
rename_item ==
    /\ \E item_name \in ItemNames, item_type \in ItemTypes,
          new_name \in NewNames :
         LET r == rename_effect(item_name, item_type, new_name)
         IN  \* the prompt for the new name appears only for an existing entry
             /\ (r.outcome = "not_found" => new_name = <<>>)
             /\ fsDirs' = r.dirs
             /\ fsFiles' = r.files
             /\ lastOp' = [op |-> "rename_item", item |-> item_name,
                           type |-> item_type, name |-> new_name,
                           outcome |-> r.outcome]
    /\ UNCHANGED <<cursor, gitDir, platform>>
    /\ PipelineUnchanged

\* delete_item removing the entry without asking
delete_effect_unasked(item_name, item_type, confirm) ==
    LET item_path == Append(cursor, item_name)
    IN  IF ~ExistsAs(item_path, item_type)
        THEN [outcome |-> "not_found", dirs |-> fsDirs, files |-> fsFiles]
        ELSE [outcome |-> "deleted",
              dirs |-> {d \in fsDirs : ~HasPrefix(d, item_path)},
              files |-> {f \in fsFiles : ~HasPrefix(f.path, item_path)}]

\* delete_item(item_name, item_type) with the answer to "Are you sure":
\* os.remove for a file, shutil.rmtree for a directory
delete_effect(item_name, item_type, confirm) ==
    LET item_path == Append(cursor, item_name)
    IN  IF ~ExistsAs(item_path, item_type)
        THEN [outcome |-> "not_found", dirs |-> fsDirs, files |-> fsFiles]
        ELSE IF ~confirm
        THEN [outcome |-> "cancelled", dirs |-> fsDirs, files |-> fsFiles]
        ELSE [outcome |-> "deleted",
              dirs |-> {d \in fsDirs : ~HasPrefix(d, item_path)},
              files |-> {f \in fsFiles : ~HasPrefix(f.path, item_path)}]

\* FileOperations.delete_item(item_name, item_type)
delete_item ==
    /\ \E item_name \in ItemNames, item_type \in ItemTypes, confirm \in BOOLEAN :
         LET r == delete_effect(item_name, item_type, confirm)
         IN  \* the question is asked only about an existing entry
             /\ (r.outcome = "not_found" => ~confirm)
             /\ fsDirs' = r.dirs
             /\ fsFiles' = r.files
             /\ lastOp' = [op |-> "delete_item", item |-> item_name,
                           type |-> item_type, confirm |-> confirm,
                           outcome |-> r.outcome]
    /\ UNCHANGED <<cursor, gitDir, platform>>
    /\ PipelineUnchanged

InitFs ==
    /\ PipelineIdle
    /\ DiagIdle
    /\ fsDirs = {<<>>, StartDir}
    /\ fsFiles = {}
    /\ cursor = StartDir
    /\ gitDir = StartDir
    /\ lastOp = NoOp
    /\ platform \in {"posix", "windows"}

NextFs ==
    \/ create_directory_and_file
    \/ create_file_in_directory
    \/ change_directory
    \/ go_to_parent_directory
    \/ FsPublish
    \/ cli_create_directory_and_file

SpecFs == InitFs /\ [][NextFs]_vars

\* the file browser at work in a directory that already holds a
\* sub-directory and a file; none of the names used here is one that
\* only some platforms accept, so one platform stands for both
InitItems ==
    /\ PipelineIdle
    /\ DiagIdle
    /\ fsDirs = {<<>>, StartDir, Append(StartDir, <<"s", "u", "b">>)}
    /\ fsFiles = {[path |-> Append(StartDir, <<"n">>), content |-> "text"]}
    /\ cursor = StartDir
    /\ gitDir = StartDir
    /\ lastOp = NoOp
    /\ platform = "posix"

NextItems ==
    \/ change_directory
    \/ go_to_parent_directory
    \/ cli_create_directory_and_file
    \/ rename_item
    \/ delete_item

SpecItems == InitItems /\ [][NextItems]_vars


\* ================================================================ claims
GACP == "git_add_commit_push"
SUP == "set_upstream_and_push"
TR == "troubleshoot_and_retry"

\* the add / commit / push steps issued by git_add_commit_push itself or
\* by the set-upstream retry it calls
RunSteps == {k \in DOMAIN log : log[k].by \in {GACP, SUP}}
Rank(c) == IF IsAdd(c) THEN 1 ELSE IF IsCommit(c) THEN 2 ELSE 3

\* C1: within one run of git_add_commit_push the steps come in the order
\* add (every file), commit, push, and nothing follows a step that exited
\* non-zero (a failing add: no commit, no push; a failing commit: no push).
C1_OrderAndShortCircuit ==
    \A j, k \in RunSteps :
        (j < k /\ log[j].run = log[k].run) =>
            /\ log[j].rc = 0
            /\ Rank(log[j].cmd) <= Rank(log[k].cmd)
            /\ (Rank(log[j].cmd) = Rank(log[k].cmd) => IsAdd(log[j].cmd))

\* C2: a run whose commit fails because nothing is staged ends in failure
\* and issues no push command.
C2_EmptyCommitFailsAtCommit ==
    \A k \in DOMAIN log :
        (log[k].by = GACP /\ IsCommit(log[k].cmd) /\ log[k].rc # 0
            /\ log[k].nothingStaged) =>
            /\ \A j \in RunSteps :
                 (j > k /\ log[j].run = log[k].run) => ~IsPush(log[j].cmd)
            /\ (log[k].run = depth => gacpResult \in {"none", "false"})

\* the ref a push command names
PushRef(c) == c[Len(c)]

\* C3: every push command issued names the repository's current branch
\* (HEAD is the current branch by definition).
C3_PushNamesCurrentBranch ==
    \A k \in DOMAIN log :
        (IsPush(log[k].cmd) /\ currentBranch # "") =>
            PushRef(log[k].cmd) \in {currentBranch, "HEAD"}

\* C4: with no resolvable current branch (detached head) a publish attempt
\* issues no push command.
C4_NoBranchNoPush ==
    (isRepo /\ currentBranch = "") =>
        \A k \in DOMAIN log : ~IsPush(log[k].cmd)

TrPushes == {k \in DOMAIN log : log[k].by = TR /\ IsPush(log[k].cmd)}

\* C5: when troubleshoot_and_retry reports that all strategies failed, the
\* push of each of the four strategies has been attempted: four pushes.
C5_AllFailedMeansFourPushes ==
    (pc = "done" /\ trResult = "false") => Cardinality(TrPushes) = 4

\* the commands of the strategy loop (not those of the initial commit)
TrIter(k) ==
    /\ log[k].by = TR
    /\ log[k].cmd # <<"git", "add", ".">>
    /\ log[k].cmd # <<"git", "commit", "-m", "Initial", "commit">>
\* every abandoned strategy leaves exactly one failed command
FailedBefore(k) == Cardinality({j \in 1..(k - 1) : TrIter(j) /\ log[j].rc # 0})
StrategyKind(c) ==
    IF c[3] \in {"--set-upstream", "-u"} THEN c[3]
    ELSE IF PushRef(c) = "HEAD" THEN "HEAD" ELSE "plain"
DocumentedOrder == <<"plain", "--set-upstream", "-u", "HEAD">>

\* C6: the n-th strategy tried pushes with the n-th documented invocation
\* (plain, --set-upstream, -u, HEAD), and a push that exits 0 is the last
\* command of the attempt, whose result is success.
C6_FixedOrderStopAtFirstSuccess ==
    \A k \in TrPushes :
        /\ FailedBefore(k) < Len(DocumentedOrder)
        /\ StrategyKind(log[k].cmd) = DocumentedOrder[FailedBefore(k) + 1]
        /\ Len(log[k].cmd) = IF StrategyKind(log[k].cmd) \in {"plain", "HEAD"}
                             THEN 4 ELSE 5
        /\ log[k].rc = 0 => (k = Len(log) /\ trResult = "true" /\ pc = "done")

\* a later strategy succeeded after earlier ones had failed
C6_Witness ==
    /\ pc = "done" /\ trResult = "true" /\ strat >= 3
    /\ log # <<>>
    /\ log[Len(log)].by = TR /\ IsPush(log[Len(log)].cmd) /\ log[Len(log)].rc = 0

\* C7: no exception leaves git_add_commit_push, set_upstream_and_push or
\* troubleshoot_and_retry, whatever git command fails.
C7_NoExceptionEscapes ==
    gacpResult # "raised" /\ trResult # "raised"

PushFailedWith(phrase) ==
    /\ pc = "gacp_except"
    /\ IsPush(err.cmd)
    /\ Contains(phrase, Lower(err.stderr))

\* C8: a push that fails with "no upstream branch" in its error text is
\* followed by the single `push --set-upstream` retry.
C8_NoUpstreamRetriesOnce ==
    [][PushFailedWith(<<"no", "upstream", "branch">>) => pc' = "sup_push"]_vars

\* C9: a push that fails with "no remote" in its error text leads to the
\* remote prompt (not to an exception), and the full sequence is re-run at
\* most once in one attempt.
C9_NoRemoteRerunsOnce ==
    [][/\ PushFailedWith(<<"no", "remote">>) => gacpResult' # "raised"
       /\ depth' <= 1]_vars

\* C10: in an enhanced attempt the set-upstream retry, the add-remote
\* re-run and each strategy's push happen at most once, and the
\* all-strategies-failed result ends the attempt.
C10_EachRetryBranchOnce ==
    flow = "enhanced" =>
        /\ Cardinality({k \in DOMAIN log : log[k].by = SUP}) <= 1
        /\ depth <= 1
        /\ \A s \in 1..Len(DocumentedOrder) :
             Cardinality({k \in TrPushes :
                            StrategyKind(log[k].cmd) = DocumentedOrder[s]}) <= 1
        /\ (trResult = "false" => pc = "done")

\* C11: a failed git command reaches the user with its complete error
\* text: the handler of git_add_commit_push has a non-empty message to
\* print, and it is the command's error output whenever there is one.
C11_FailureCarriesRawMessage ==
    pc = "gacp_except" =>
        /\ ~error_msg(err).raised
        /\ error_msg(err).msg # <<>>
        /\ (err.stderr # <<>> => error_msg(err).msg = err.stderr)

DiagFields ==
    {"is_git_repo", "has_remote", "remote_url", "has_commits",
     "current_branch", "staged_files", "modified_files", "untracked_files"}

\* C12: run_git_diagnostics never raises, whatever git answers (no
\* repository, no remote, no commits, detached head, a command failing or
\* not starting), and the record it returns has all eight fields.
C12_DiagnosticsNeverRaises ==
    dgOut # NoCall =>
        /\ ~dgOut.raised
        /\ DOMAIN dgOut.rec = DiagFields

\* git could not be started in a repository, and the record came back
C12_Witness ==
    /\ dgOut # NoCall
    /\ dgIn.repo
    /\ dgIn.branch.kind = "oserror"
    /\ dgOut.rec.is_git_repo

\* the file lists of a record
FileLists(d) == <<d.staged_files, d.modified_files, d.untracked_files>>

\* C13: each sub-check of run_git_diagnostics is independently fallible: a
\* failing one leaves its own field negative (branch absent, has_remote
\* false, has_commits false, file lists empty), and every sub-check that
\* succeeds reports its own answer whatever the others did.
C13_SubChecksIndependent ==
    (dgOut # NoCall /\ dgIn.repo) =>
        LET d == dgOut.rec
        IN  /\ d.current_branch =
                   (IF dgIn.branch.kind = "ok" THEN dgIn.branch.out ELSE "None")
            /\ d.has_remote = (dgIn.remote.kind = "ok")
            /\ d.has_commits = (dgIn.commits.kind = "ok" /\ dgIn.commits.out # "")
            /\ FileLists(d) =
                   (IF dgIn.status.kind = "ok"
                    THEN FileLists(ParseStatus(StripSplit(dgIn.status.out),
                                               DiagDefaults))
                    ELSE <<<<>>, <<>>, <<>>>>)

\* C14: in every record of run_git_diagnostics has_remote is true exactly
\* when remote_url is present.
C14_HasRemoteIffUrl ==
    dgOut # NoCall =>
        (dgOut.rec.has_remote <=> dgOut.rec.remote_url # "None")

\* a record that reports the remote and its URL
C14_Witness ==
    /\ dgOut # NoCall
    /\ dgOut.rec.has_remote
    /\ dgOut.rec.remote_url = "u1"

\* C15: with a remote configured and the replacement declined, add_remote
\* returns failure, issues neither `remote remove` nor `remote add`, and
\* leaves the configured URL as it was, whatever URL was offered.
C15_DeclinedReplaceChangesNothing ==
    remoteUrl # "" =>
        \A url \in {"u1", "u2"}, rmOk, addOk \in BOOLEAN :
            LET r == add_remote(url, FALSE, rmOk, addOk)
            IN  /\ ~r.result
                /\ r.remote = remoteUrl
                /\ \A k \in DOMAIN r.entries :
                       r.entries[k].cmd[3] \notin {"remove", "add"}

\* add_remote found the remote, was told not to replace it, and the
\* attempt ended with the remote still there
C15_Witness ==
    /\ pc = "done" /\ gacpResult = "false" /\ remoteUrl # ""
    /\ log # <<>>
    /\ log[Len(log)].by = "add_remote"
    /\ log[Len(log)].cmd = <<"git", "remote", "get-url", "origin">>
    /\ log[Len(log)].rc = 0

\* C16: outside a repository a publish attempt of either CLI flow ends at
\* once unless the caller opts in and `git init` succeeds: while the
\* directory is no repository the attempt is over and has issued no add,
\* commit, push or remote command; a successful init makes it one.
C16_NoRepoNoGitWork ==
    /\ (flow # "none" /\ ~isRepo) =>
           /\ pc = "done"
           /\ \A k \in DOMAIN log :
                  ~(IsAdd(log[k].cmd) \/ IsCommit(log[k].cmd)
                    \/ IsPush(log[k].cmd) \/ IsRemote(log[k].cmd))
    /\ (flow # "none" /\ log # <<>> /\ log[1].cmd = <<"git", "init">>
        /\ log[1].rc = 0) => isRepo

\* the caller opted in, `git init` failed and the attempt is over
C16_Witness ==
    /\ flow = "enhanced" /\ ~isRepo /\ pc = "done"
    /\ log = <<[cmd |-> <<"git", "init">>, rc |-> 1, by |-> "initialize_git",
                run |-> 0, nothingStaged |-> FALSE]>>

\* C17: every `git add` of a publish attempt names one of the files
\* selected for the attempt, in git_add_commit_push and in
\* troubleshoot_and_retry alike.
C17_OnlyTargetsStaged ==
    \A k \in DOMAIN log :
        IsAdd(log[k].cmd) =>
            \E j \in DOMAIN files : log[k].cmd = CmdAdd(files[j])

\* the three commands of a publish that meets no failure
HappyPath == <<CmdAdd(files[1]), CmdCommit(message), gacp_push_cmd>>

\* one file selected in an existing repository with a remote, and every
\* git command issued so far has succeeded
C19_Scenario ==
    /\ flow # "none" /\ Len(files) = 1
    /\ log # <<>> /\ log[1].by = GACP
    /\ \A k \in DOMAIN log : log[k].rc = 0

\* C19: in that scenario the attempt issues exactly one add, one commit
\* and one push, in this order, ends with the result True, and no retry
\* and no troubleshooting step runs.
C19_HappyPathIsThreeCommands ==
    C19_Scenario =>
        /\ Len(log) <= 3
        /\ \A k \in DOMAIN log : log[k].cmd = HappyPath[k] /\ log[k].by = GACP
        /\ depth = 0 /\ trResult = "none" /\ exc = "none"
        /\ pc \notin {"gacp_except", "sup_push", "tr_diag", "tr_initial",
                      "tr_add", "tr_commit", "tr_push"}
        /\ (Len(log) = 3 <=> pc = "done")
        /\ (pc = "done" => gacpResult = "true")

\* a.txt published with the default message through the enhanced flow
C19_Witness ==
    /\ flow = "enhanced" /\ pc = "done" /\ gacpResult = "true"
    /\ files = <<"a.txt">> /\ message = <<"Update", "files">>
    /\ Len(log) = 3 /\ \A k \in DOMAIN log : log[k].rc = 0
    /\ log[1].by = GACP

\* C18: after any navigation, a publish hands git file names of the
\* directory git runs in: the directory the names were listed from is the
\* directory the git commands execute in.
C18_ListedWhereGitRuns ==
    lastOp.op = "git_push" => lastOp.dir = lastOp.cwd

BlockedChars == {"<", ">", ":", "\"", "\\", "|", "?", "*"}
InvalidName(name) ==
    \/ Len(name) > 255
    \/ \E k \in DOMAIN name : name[k] \in BlockedChars

\* C20: a create operation given a directory or file name with a blocked
\* character or more than 255 characters fails and leaves the filesystem
\* unchanged.
C20_InvalidNameRejected ==
    [][(/\ lastOp'.op \in {"create_directory_and_file",
                           "create_file_in_directory"}
        /\ (InvalidName(lastOp'.dir) \/ InvalidName(lastOp'.name)))
       => (/\ ~lastOp'.result
           /\ fsDirs' = fsDirs
           /\ fsFiles' = fsFiles)]_vars

SixStatuses ==
    {<<"Clean">>, <<"Untracked">>, <<"Modified">>, <<"Added">>,
     <<"Deleted">>, <<"Unknown">>}

\* C23: whatever status line git prints for the path, get_file_git_status
\* returns one of Clean, Untracked, Modified, Added, Deleted, Unknown.
C23_OneOfSixStatuses ==
    stOut # NoCall => (~stOut.raised /\ stOut.status \in SixStatuses)

\* the paths of the porcelain lines whose status columns satisfy Test
PathsWhere(output, Test(_)) ==
    {FilenameOf(output[k]) : k \in {n \in DOMAIN output : Test(output[n])}}
IndexStaged(line) == line[1] \in {"M", "A", "R", "C"}
WorktreeModified(line) == line[2] = "M"
IsUntracked(line) == line[1] = "?" /\ line[2] = "?"
Range(seq) == {seq[k] : k \in DOMAIN seq}

\* C27: for every porcelain output the three lists of run_git_diagnostics
\* hold exactly the paths whose index column is M, A, R or C, whose
\* worktree column is M, and whose status is ??, under their full names,
\* the entry of the first line included.
C27_PorcelainParsedByColumn ==
    (/\ dgOut # NoCall /\ dgIn.repo /\ dgIn.status.kind = "ok"
     /\ diag_reached(dgIn, 0) = Len(SubChecks)) =>
        LET d == dgOut.rec
            out == dgIn.status.out
        IN  /\ Range(d.staged_files) = PathsWhere(out, IndexStaged)
            /\ Range(d.modified_files) = PathsWhere(out, WorktreeModified)
            /\ Range(d.untracked_files) = PathsWhere(out, IsUntracked)

\* a selection answer that names no listed file
InvalidChoice(choice) ==
    \/ choice = "q"
    \/ choice \notin {"all", "1", "2", "3"}
    \/ choice \in {"1", "2", "3"} /\ ParseInt(choice) > Len(ListedFiles)

UserCommits ==
    {k \in DOMAIN log : log[k].cmd = CmdCommit(message) /\ log[k].rc = 0}

\* troubleshoot_and_retry committed, its push failed, and the loop went on
\* to the all-strategies-failed return
CommittedThenPushFailed ==
    /\ pc = "done" /\ trResult = "false"
    /\ \E k \in DOMAIN log :
           /\ k \in UserCommits /\ log[k].by = TR
           /\ k < Len(log)
           /\ IsPush(log[k + 1].cmd) /\ log[k + 1].rc # 0

\* C25 (as stated): when the commit of the retry loop succeeds and the
\* pushes keep failing, the attempt ends with more than one commit that
\* carries the user's message.
C25_RetryDuplicatesCommit ==
    CommittedThenPushFailed => Cardinality(UserCommits) > 1

\* C25 (amended): one publish attempt produces at most one commit with the
\* user's message: after a successful commit the index is empty, so the
\* `git commit` each later strategy re-runs exits non-zero and the strategy
\* is given up before its push.
C25_AtMostOneUserCommit ==
    /\ Cardinality(UserCommits) <= 1
    /\ \A k \in DOMAIN log :
           (log[k].by = TR /\ IsCommit(log[k].cmd)
            /\ \E j \in UserCommits : j < k) => log[k].rc # 0

\* the loop committed once, the push failed, and a later strategy's commit
\* found nothing to commit
C25_Witness ==
    /\ CommittedThenPushFailed
    /\ Cardinality(UserCommits) = 1
    /\ \E k \in DOMAIN log :
           /\ log[k].by = TR /\ log[k].cmd = CmdCommit(message)
           /\ log[k].rc # 0 /\ log[k].nothingStaged
           /\ \E j \in UserCommits : j < k

\* how far a publish attempt has come
Progress ==
    CASE pc = "menu" -> 0
      [] pc = "std_select" -> 1
      [] pc = "enh_remote" -> 1
      [] pc = "enh_select" -> 2
      [] pc = "gacp_add" -> 10 + i
      [] pc = "gacp_commit" -> 20
      [] pc = "gacp_push" -> 21
      [] pc = "gacp_except" -> 22
      [] pc = "sup_push" -> 23
      [] pc = "tr_diag" -> 30
      [] pc = "tr_initial" -> 31
      [] pc = "tr_add" -> 100 * strat + i
      [] pc = "tr_commit" -> 100 * strat + 50
      [] pc = "tr_push" -> 100 * strat + 51
      [] OTHER -> 1000

\* C26: every publish attempt terminates: each step of an attempt brings
\* it closer to its final result, so no sequence of git outcomes and user
\* answers keeps git_add_commit_push or troubleshoot_and_retry running.
C26_EveryStepProgresses ==
    [][pc # "done" => Progress' > Progress]_vars

RenameStep == lastOp'.op = "rename_item"
TreeUnchanged == fsDirs' = fsDirs /\ fsFiles' = fsFiles

\* C21: a rename_item whose destination name already exists in the current
\* directory, whose new name is empty, or whose source entry of the stated
\* type does not exist, renames nothing and leaves every entry as it was.
C21_RenameFailsOnExistingDestination ==
    [][RenameStep =>
         LET src == Append(cursor, lastOp'.item)
             dst == Append(cursor, lastOp'.name)
         IN  (\/ IsDir(dst) \/ IsFile(dst)
              \/ lastOp'.name = <<>>
              \/ ~ExistsAs(src, lastOp'.type))
             => /\ TreeUnchanged
                /\ lastOp'.outcome # "renamed"]_vars

\* a rename of an existing entry to the name of another existing entry was
\* refused
C21_Witness ==
    /\ lastOp.op = "rename_item"
    /\ lastOp.outcome = "exists"
    /\ lastOp.name # lastOp.item
    /\ ExistsAs(Append(cursor, lastOp.item), lastOp.type)
    /\ (IsDir(Append(cursor, lastOp.name)) \/ IsFile(Append(cursor, lastOp.name)))

\* ------------------------------------------------------------------ C22
ContentAt(path) == {f.content : f \in {g \in fsFiles : g.path = path}}
CreateOps == {"create_directory_and_file", "create_file_in_directory",
              "cli_create_directory_and_file"}
\* the content the user or caller supplied to the last create
Supplied ==
    IF lastOp.op = "cli_create_directory_and_file" THEN lastOp.typed
    ELSE lastOp.content

\* C22: after a successful create with non-empty supplied content the file
\* read back holds exactly that content; a template default is there only
\* when the supplied content was empty.
C22_ExplicitContentRoundTrips ==
    (/\ lastOp.op \in CreateOps
     /\ lastOp.result
     /\ lastOp.name # <<>>
     /\ Supplied # "")
    => ContentAt(Append(Join(cursor, lastOp.dir), lastOp.name)) = {Supplied}

\* ------------------------------------------------------------------ C29
\* C29: the cursor of FileOperations names an existing directory after every
\* sequence of change_directory, go_to_parent_directory, create, rename_item
\* and delete_item; change_directory to a name that is no directory and
\* go_to_parent_directory at the root leave the cursor where it was.
C29_CursorNamesDirectory ==
    /\ [](cursor \in fsDirs)
    /\ [][/\ (lastOp'.op = "change_directory"
              /\ ~IsDir(Join(cursor, lastOp'.dir))) => cursor' = cursor
          /\ (lastOp'.op = "go_to_parent_directory" /\ cursor = <<>>)
             => cursor' = cursor]_vars

\* at the root, after entries were renamed or deleted, going to the parent
\* was refused
C29_Witness ==
    /\ cursor = <<>>
    /\ lastOp.op = "go_to_parent_directory"
    /\ ~lastOp.result
    /\ Append(StartDir, <<"s", "u", "b">>) \notin fsDirs

\* ------------------------------------------------------------------ C30
\* C30: delete_item removes an entry only after the user confirmed: when
\* the answer is no, when the named entry does not exist or is not of the
\* stated type, the tree is left as it was; what is removed is the named
\* entry and what lies below it.
C30_DeleteOnlyAfterConfirm ==
    [][lastOp'.op = "delete_item" =>
         LET src == Append(cursor, lastOp'.item)
         IN  /\ (~lastOp'.confirm \/ ~ExistsAs(src, lastOp'.type))
                => TreeUnchanged
             /\ fsDirs' \subseteq fsDirs
             /\ fsFiles' \subseteq fsFiles
             /\ \A d \in fsDirs \ fsDirs' : HasPrefix(d, src)
             /\ \A f \in fsFiles \ fsFiles' : HasPrefix(f.path, src)]_vars

\* the user declined the deletion of an existing entry
C30_Witness ==
    /\ lastOp.op = "delete_item"
    /\ lastOp.outcome = "cancelled"
    /\ ~lastOp.confirm
    /\ ExistsAs(Append(cursor, lastOp.item), lastOp.type)

====
